---- MODULE Spec2Model ----
(***************************************************************************)
(* Model of time_tracker_V2.py: the punch list (TimeTrackerState), its CSV *)
(* persistence (load_csv / save_csv through a temporary file), the clock   *)
(* in / clock out slots of the TimeTracker widget and the rounded totals   *)
(* the widget shows.                                                       *)
(*                                                                         *)
(* Time.  A datetime is an integer count of ticks since an epoch, a tick   *)
(* being 1/TicksPerSecond second (Python keeps microseconds).  A timedelta *)
(* is a (possibly negative) count of ticks.  A timestamp text of the CSV   *)
(* file in ISO_FMT is the count of whole seconds it denotes: strftime     *)
(* drops the sub-second part, strptime yields a datetime with none.        *)
(***************************************************************************)
EXTENDS Integers, Sequences, FiniteSets

\* ---------------------------------------------------------------- bounds
\* ticks per second of the model's datetimes
TicksPerSecond == 2
\* the longest punch list clock_in is allowed to build
MaxPunches == 2
\* the save_csv failures and process kills of one behaviour
MaxFaults == 1
\* the longest punch list a summary is computed over on its own
MaxViewPunches == 2
\* the most rows of a data file that was not written by save_csv
MaxFileRows == 2
\* the largest |timedelta|, in seconds, given to round_to_six_minutes alone
MaxTdSeconds == 800

\* ------------------------------------------------------ program constants
\* inc = 6 * 60
inc == 360
SecondsPerHour == 3600
SecondsPerDay == 86400
\* Punch.out_time = None
None == -1
\* an empty CSV field
EmptyField == -1
\* a CSV field that is not a timestamp in ISO_FMT (or is missing)
BadField == -2
\* in place of in_time: a line holding bytes that are not UTF-8
UndecodableField == -3

\* the readings datetime.now() can return (ticks); the wall clock may step
\* back between two readings
Instants == {1, 200 * TicksPerSecond + 1}
\* the datetimes of the punch lists a summary is computed over on its own
ViewInstants ==
  {0, 200 * TicksPerSecond, 400 * TicksPerSecond,
   SecondsPerDay * TicksPerSecond + 1}
\* the calendar days the date pickers can show
Days == {0, 1}
\* the wages the spin box can show (cents)
Wages == {1500, 2000}

Max(a, b) == IF a >= b THEN a ELSE b

\* int(x) of Python, for x = a / b with b > 0: truncation toward zero
TruncDiv(a, b) == IF a >= 0 THEN a \div b ELSE -((-a) \div b)

\* ------------------------------------------------------------- Punch
Punch(tin, tout) == [in_time |-> tin, out_time |-> tout]

\* a variant without the floor at zero
duration_unfloored(p, now) ==
  LET end == IF p.out_time # None THEN p.out_time ELSE now
  IN  end - p.in_time

\* Punch.duration, the clock read as `now` when the punch is open
duration(p, now) ==
  LET end == IF p.out_time # None THEN p.out_time ELSE now
  IN  Max(end - p.in_time, 0)

\* a variant that rounds total_seconds() to the nearest second
round_nearest_second(td) ==
  LET secs == Max(0, (td + TicksPerSecond \div 2) \div TicksPerSecond)
      rounded == (secs + inc \div 2) \div inc
  IN  rounded * inc * TicksPerSecond

\* round_to_six_minutes: timedelta -> timedelta (both in ticks)
round_to_six_minutes(td) ==
  LET secs == Max(0, TruncDiv(td, TicksPerSecond))
      rounded == (secs + inc \div 2) \div inc
  IN  rounded * inc * TicksPerSecond

\* timedelta.total_seconds() of a whole number of seconds
total_seconds(td) == td \div TicksPerSecond

\* ------------------------------------------------------------- CSV text
\* datetime.strftime(ISO_FMT): the text shows whole seconds only
strftime(t) == t \div TicksPerSecond
\* datetime.strptime(text, ISO_FMT) of a well-formed text
strptime(s) == s * TicksPerSecond
\* datetime.date(): the calendar day
date(t) == t \div (SecondsPerDay * TicksPerSecond)

Row(p) ==
  [in_time |-> strftime(p.in_time),
   out_time |-> IF p.out_time # None THEN strftime(p.out_time) ELSE EmptyField]

\* a file: absent, or a header line (once written) followed by rows
NoFile == [exists |-> FALSE, header |-> FALSE, rows |-> <<>>]
EmptyFile == [exists |-> TRUE, header |-> FALSE, rows |-> <<>>]

RECURSIVE Rows(_)
Rows(ps) == IF ps = <<>> THEN <<>> ELSE <<Row(Head(ps))>> \o Rows(Tail(ps))

\* what save_csv writes for a punch list
Serialize(ps) == [exists |-> TRUE, header |-> TRUE, rows |-> Rows(ps)]

\* a variant that hands an empty out_time to strptime too, which raises
ParseRow_strict(r) ==
  IF r.in_time < 0 \/ r.out_time < 0 THEN <<>>
  ELSE <<Punch(strptime(r.in_time), strptime(r.out_time))>>

\* one row of load_csv's loop: <<Punch>>, or <<>> for a row that raises
ParseRow(r) ==
  IF r.in_time < 0 THEN <<>>
  ELSE IF r.out_time = EmptyField THEN <<Punch(strptime(r.in_time), None)>>
  ELSE IF r.out_time < 0 THEN <<>>
  ELSE <<Punch(strptime(r.in_time), strptime(r.out_time))>>

RECURSIVE ParseRows(_)
ParseRows(rs) ==
  IF rs = <<>> THEN <<>> ELSE ParseRow(Head(rs)) \o ParseRows(Tail(rs))

\* load_csv: the punch list after loading file f over the list `old`.  Of a
\* file without the header line csv.DictReader takes the first line for the
\* field names, and no row has an in_time field.
load_csv(old, f) ==
  IF ~f.exists THEN old
  ELSE IF ~f.header THEN <<>>
  ELSE ParseRows(f.rows)

\* `for row in reader` reads and decodes the file outside the try block:
\* UnicodeDecodeError leaves load_csv (a short file is decoded in one piece)
load_raises(f) ==
  /\ f.exists
  /\ \E i \in 1..Len(f.rows) : f.rows[i].in_time = UndecodableField

\* a variant that only checks that the list is not empty
is_clocked_in_nonempty(ps) == ps # <<>>

\* TimeTrackerState.is_clocked_in
is_clocked_in(ps) == ps # <<>> /\ ps[Len(ps)].out_time = None

\* ------------------------------------------------------------- the view
\* a variant whose range ends before end_d
punches_in_range_exclusive_end(ps, start_d, end_d) ==
  LET lo == IF start_d > end_d THEN end_d ELSE start_d
      hi == IF start_d > end_d THEN start_d ELSE end_d
  IN  SelectSeq([i \in 1..Len(ps) |-> i],
                LAMBDA i : lo <= date(ps[i].in_time) /\ date(ps[i].in_time) < hi)

\* _punches_in_range: the punches kept, as indices into the list (the Python
\* list holds references to the same Punch objects)
punches_in_range(ps, start_d, end_d) ==
  LET lo == IF start_d > end_d THEN end_d ELSE start_d
      hi == IF start_d > end_d THEN start_d ELSE end_d
  IN  SelectSeq([i \in 1..Len(ps) |-> i],
                LAMBDA i : lo <= date(ps[i].in_time) /\ date(ps[i].in_time) <= hi)

\* the clock readings of one pass over the list: one datetime.now() for each
\* open punch (Punch.duration reads the clock only when out_time is None)
RECURSIVE NowReads(_)
NowReads(ps) ==
  IF ps = <<>> THEN {<<>>}
  ELSE {<<t>> \o r : t \in (IF Head(ps).out_time = None THEN Instants ELSE {0}),
                     r \in NowReads(Tail(ps))}

\* a variant that rounds the summed raw durations once
RECURSIVE raw_total(_, _, _)
raw_total(ps, idx, nows) ==
  IF idx = <<>> THEN 0
  ELSE duration(ps[Head(idx)], nows[Head(idx)]) + raw_total(ps, Tail(idx), nows)

rounded_sum_of_raw(ps, idx, nows) == round_to_six_minutes(raw_total(ps, idx, nows))

\* the loop of _refresh_footer_only: total_rounded += round_to_six_minutes(p.duration())
RECURSIVE total_rounded(_, _, _)
total_rounded(ps, idx, nows) ==
  IF idx = <<>> THEN 0
  ELSE round_to_six_minutes(duration(ps[Head(idx)], nows[Head(idx)]))
         + total_rounded(ps, Tail(idx), nows)

\* hours = total_rounded.total_seconds() / 3600.0 as shown with one decimal:
\* tenths of an hour
tenths(td) == (total_seconds(td) * 10) \div SecondsPerHour

\* the sort key of _populate_table: (in_time, out_time or datetime.max)
KeyLess(p, q) ==
  \/ p.in_time < q.in_time
  \/ /\ p.in_time = q.in_time
     /\ p.out_time # None
     /\ (q.out_time = None \/ p.out_time < q.out_time)

\* list.sort: stable, ascending by key
RECURSIVE InsertSorted(_, _, _)
InsertSorted(ps, i, sorted) ==
  IF sorted = <<>> THEN <<i>>
  ELSE IF KeyLess(ps[i], ps[Head(sorted)]) THEN <<i>> \o sorted
  ELSE <<Head(sorted)>> \o InsertSorted(ps, i, Tail(sorted))

RECURSIVE SortIdx(_, _)
SortIdx(ps, idx) ==
  IF idx = <<>> THEN <<>>
  ELSE InsertSorted(ps, idx[Len(idx)], SortIdx(ps, SubSeq(idx, 1, Len(idx) - 1)))

\* one table row: Date, In, Out, Rounded h
TableRow(p, now) ==
  [date |-> date(p.in_time),
   tin |-> strftime(p.in_time) % SecondsPerDay,
   tout |-> IF p.out_time # None THEN strftime(p.out_time) % SecondsPerDay
            ELSE EmptyField,
   r_hours |-> tenths(round_to_six_minutes(duration(p, now)))]

\* _populate_table
populate_table(ps, start_d, end_d, nows) ==
  LET idx == SortIdx(ps, punches_in_range(ps, start_d, end_d))
  IN  [k \in 1..Len(idx) |-> TableRow(ps[idx[k]], nows[idx[k]])]

\* a variant that sorts self.state.punches itself
punches_sorted_in_place(ps, start_d, end_d) ==
  LET idx == SortIdx(ps, [i \in 1..Len(ps) |-> i])
  IN  [k \in 1..Len(ps) |-> ps[idx[k]]]

\* self.state.punches after _populate_table: _punches_in_range builds a new
\* list, and it is that list which punches.sort(...) reorders
punches_after_populate_table(ps, start_d, end_d) == ps

\* _refresh_footer_only: the total shown (tenths of an hour)
footer_total(ps, start_d, end_d, nows) ==
  tenths(total_rounded(ps, punches_in_range(ps, start_d, end_d), nows))

\* a variant that rounds the hours to whole hours before multiplying
footer_pay_whole_hours(total, w) == ((total + 5) \div 10) * 10 * w

\* pay = hours * wage, in thousandths of the currency unit (tenths x cents)
footer_pay(total, w) == total * w

\* ------------------------------------------------------------- state
VARIABLES
  punches,       \* TimeTrackerState.punches
  file,          \* the content of data_path (time_tracker_data.csv)
  tmp,           \* the content of data_path.with_suffix(".tmp")
  pc,            \* where the process is: "idle" (event loop), inside save_csv
                 \* ("save_open", "save_header", "save_rows", "save_replace"),
                 \* "closed" (window closed) or "crashed"
  handler,       \* the slot that ran last or is running
  outcome,       \* how it ended: "ok", "AlreadyActive", "NotActive" (the warning
                 \* shown), "PersistenceFailure" (save_csv raised), "LoadFailure"
                 \* (load_csv raised), "running"
  start_date,    \* the From date picker
  end_date,      \* the To date picker
  wage,          \* rate_input (cents)
  status_label,  \* TRUE: "Clocked In" shown, Clock Out enabled
  table,         \* the rows of the table widget
  total_label,   \* "Total hours (rounded)", tenths of an hour
  pay,           \* the pay shown, thousandths of the currency unit
  row,           \* inside save_csv: the punches written so far by the loop
  faults,        \* save_csv failures and kills so far
  ncalls,        \* history: the on_in / on_out calls made since the program
                 \* started idle, while they alternate (on_in first); Broken after
  td,            \* a timedelta handed to round_to_six_minutes on its own
  rounded        \* its result, or None before the call

vars ==
  <<punches, file, tmp, pc, handler, outcome, start_date, end_date, wage,
    status_label, table, total_label, pay, row, faults, ncalls, td, rounded>>

store == <<file, tmp>>
view == <<status_label, table, total_label, pay>>
inputs == <<start_date, end_date, wage>>
probe == <<td, rounded>>

SavePcs == {"save_open", "save_header", "save_rows", "save_replace"}
Broken == 0 - 1

\* _refresh_footer_only on the list ps, with clock readings nows
RefreshFooter(ps, w, nows) ==
  /\ total_label' = footer_total(ps, start_date', end_date', nows)
  /\ pay' = footer_pay(total_label', w)

\* _refresh on the list ps: buttons and status, the table, the footer
Refresh(ps) ==
  /\ status_label' = is_clocked_in(ps)
  /\ \E nt \in NowReads(ps) : table' = populate_table(ps, start_date', end_date', nt)
  /\ \E nf \in NowReads(ps) : RefreshFooter(ps, wage', nf)

\* TimeTracker.__init__ on a first run: no data file, the default range and wage
Init ==
  /\ punches = <<>>
  /\ file = NoFile
  /\ tmp = NoFile
  /\ pc = "idle"
  /\ handler = "init"
  /\ outcome = "ok"
  /\ start_date = 0
  /\ end_date = 1
  /\ wage = 2000
  /\ status_label = FALSE
  /\ table = <<>>
  /\ total_label = 0
  /\ pay = 0
  /\ row = 0
  /\ faults = 0
  /\ ncalls = 0
  /\ td = 0
  /\ rounded = None

\* ------------------------------------------------------------- clock in / out
\* a variant of clock_in without the is_clocked_in guard
clock_in_unguarded(ps, now) ==
  [ok |-> TRUE, punches |-> Append(ps, Punch(now, None))]

\* a variant of clock_in that puts the new punch first
clock_in_prepend(ps, now) ==
  IF is_clocked_in(ps) THEN [ok |-> FALSE, punches |-> ps]
  ELSE [ok |-> TRUE, punches |-> <<Punch(now, None)>> \o ps]

\* TimeTrackerState.clock_in, the clock read as `now`; ok = FALSE: RuntimeError
clock_in(ps, now) ==
  IF is_clocked_in(ps) THEN [ok |-> FALSE, punches |-> ps]
  ELSE [ok |-> TRUE, punches |-> Append(ps, Punch(now, None))]

\* a variant of clock_out that only checks the list is not empty
clock_out_unguarded(ps, now) ==
  IF ps = <<>> THEN [ok |-> FALSE, punches |-> ps]
  ELSE [ok |-> TRUE, punches |-> [ps EXCEPT ![Len(ps)].out_time = now]]

\* TimeTrackerState.clock_out, the clock read as `now`; ok = FALSE: RuntimeError
clock_out(ps, now) ==
  IF ~is_clocked_in(ps) THEN [ok |-> FALSE, punches |-> ps]
  ELSE [ok |-> TRUE, punches |-> [ps EXCEPT ![Len(ps)].out_time = now]]

\* the history of calls: the k-th call of an alternating run is on_in for odd k
Called(isIn) ==
  ncalls' = IF ncalls # Broken /\ (ncalls % 2 = 0) = isIn THEN ncalls + 1
            ELSE Broken

\* on_in up to the call of save_csv; on RuntimeError the warning and _refresh
on_in ==
  /\ pc = "idle"
  /\ \E now \in Instants :
       LET r == clock_in(punches, now) IN
       /\ Len(r.punches) <= MaxPunches
       /\ handler' = "on_in"
       /\ Called(TRUE)
       /\ UNCHANGED <<store, row, inputs, faults, probe>>
       /\ IF r.ok
          THEN /\ punches' = r.punches
               /\ pc' = "save_open"
               /\ outcome' = "running"
               /\ UNCHANGED view
          ELSE /\ punches' = punches_after_populate_table(r.punches, start_date, end_date)
               /\ pc' = "idle"
               /\ outcome' = "AlreadyActive"
               /\ Refresh(punches')

\* on_out up to the call of save_csv; on RuntimeError the warning and _refresh
on_out ==
  /\ pc = "idle"
  /\ \E now \in Instants :
       LET r == clock_out(punches, now) IN
       /\ handler' = "on_out"
       /\ Called(FALSE)
       /\ UNCHANGED <<store, row, inputs, faults, probe>>
       /\ IF r.ok
          THEN /\ punches' = r.punches
               /\ pc' = "save_open"
               /\ outcome' = "running"
               /\ UNCHANGED view
          ELSE /\ punches' = punches_after_populate_table(r.punches, start_date, end_date)
               /\ pc' = "idle"
               /\ outcome' = "NotActive"
               /\ Refresh(punches')

\* ------------------------------------------------------------- save_csv
\* the two files save_csv touches
Store(f, t) == [file |-> f, tmp |-> t]

\* a variant that opens the data file itself for writing
save_open_in_place(st) == [st EXCEPT !.file = EmptyFile]

\* tmp.open("w"): the temporary file is created or truncated
save_open(st) == [st EXCEPT !.tmp = EmptyFile]

\* w.writeheader()
save_header(st) == [st EXCEPT !.tmp.header = TRUE]

\* a variant that writes only the last punch
save_row_last_only(st, ps, i) ==
  IF i < Len(ps) THEN st ELSE [st EXCEPT !.tmp.rows = Append(@, Row(ps[i]))]

\* w.writerow(...) for the i-th punch of the list
save_row(st, ps, i) == [st EXCEPT !.tmp.rows = Append(@, Row(ps[i]))]

\* tmp.replace(path): the rename over the data file
save_replace(st) == [file |-> st.tmp, tmp |-> NoFile]

\* the memory of a process that has ended
Ended ==
  /\ punches' = <<>>
  /\ start_date' = 0
  /\ end_date' = 1
  /\ wage' = 2000
  /\ status_label' = FALSE
  /\ table' = <<>>
  /\ total_label' = 0
  /\ pay' = 0
  /\ ncalls' = 0

\* a variant: `except Exception`
caught_any(exc) == TRUE

\* `except RuntimeError as e` of on_in and on_out: the exceptions it catches
\* (OSError is no RuntimeError)
caught(exc) == exc = "RuntimeError"

SaveOpen ==
  /\ pc = "save_open"
  /\ LET st == save_open(Store(file, tmp)) IN file' = st.file /\ tmp' = st.tmp
  /\ pc' = "save_header"
  /\ UNCHANGED <<punches, handler, outcome, row, inputs, view, faults, ncalls, probe>>

SaveHeader ==
  /\ pc = "save_header"
  /\ LET st == save_header(Store(file, tmp)) IN file' = st.file /\ tmp' = st.tmp
  /\ pc' = IF punches = <<>> THEN "save_replace" ELSE "save_rows"
  /\ UNCHANGED <<punches, handler, outcome, row, inputs, view, faults, ncalls, probe>>

\* one turn of the loop over self.punches; row counts the turns done
SaveRow ==
  /\ pc = "save_rows"
  /\ LET st == save_row(Store(file, tmp), punches, row + 1)
     IN  file' = st.file /\ tmp' = st.tmp
  /\ row' = row + 1
  /\ pc' = IF row' = Len(punches) THEN "save_replace" ELSE "save_rows"
  /\ UNCHANGED <<punches, handler, outcome, inputs, view, faults, ncalls, probe>>

\* tmp.replace(path), then save_csv returns to the slot that called it: on_in
\* and on_out go on to _refresh, closeEvent to super().closeEvent
SaveReplace ==
  /\ pc = "save_replace"
  /\ LET st == save_replace(Store(file, tmp)) IN file' = st.file /\ tmp' = st.tmp
  /\ outcome' = "ok"
  /\ row' = 0
  /\ IF handler = "closeEvent"
     THEN pc' = "closed" /\ Ended
     ELSE /\ pc' = "idle"
          /\ punches' = punches_after_populate_table(punches, start_date, end_date)
          /\ UNCHANGED <<inputs, ncalls>>
          /\ Refresh(punches')
  /\ UNCHANGED <<handler, faults, probe>>

\* a step of save_csv raises OSError, leaving the temporary file as written
\* so far.  In on_in / on_out the except clause does not catch it: it leaves
\* the slot, and _refresh is skipped.  closeEvent's finally still closes the
\* window.
SaveFail ==
  /\ pc \in SavePcs
  /\ faults < MaxFaults
  /\ faults' = faults + 1
  /\ row' = 0
  /\ IF handler = "closeEvent"
     THEN /\ outcome' = "PersistenceFailure"
          /\ pc' = "closed"
          /\ Ended
     ELSE /\ pc' = "idle"
          /\ UNCHANGED <<inputs, ncalls>>
          /\ IF caught("OSError")
             THEN /\ outcome' = IF handler = "on_in" THEN "AlreadyActive"
                                ELSE "NotActive"
                  /\ punches' = punches_after_populate_table(punches, start_date, end_date)
                  /\ Refresh(punches')
             ELSE /\ outcome' = "PersistenceFailure"
                  /\ UNCHANGED <<punches, view>>
  /\ UNCHANGED <<store, handler, probe>>

\* a variant that saves only while clocked in
closeEvent_save_if_clocked_in ==
  /\ pc = "idle"
  /\ handler' = "closeEvent"
  /\ UNCHANGED <<store, row, faults, probe>>
  /\ IF is_clocked_in(punches)
     THEN /\ pc' = "save_open"
          /\ outcome' = "running"
          /\ UNCHANGED <<punches, inputs, view, ncalls>>
     ELSE /\ pc' = "closed"
          /\ outcome' = "ok"
          /\ Ended

\* closeEvent up to the call of save_csv
closeEvent ==
  /\ pc = "idle"
  /\ pc' = "save_open"
  /\ handler' = "closeEvent"
  /\ outcome' = "running"
  /\ UNCHANGED <<punches, store, row, inputs, view, faults, ncalls, probe>>

\* the process is killed (or the machine stops) at any point
Crash ==
  /\ pc \in SavePcs \cup {"idle"}
  /\ faults < MaxFaults
  /\ faults' = faults + 1
  /\ pc' = "crashed"
  /\ handler' = "none"
  /\ outcome' = "none"
  /\ row' = 0
  /\ Ended
  /\ UNCHANGED <<store, probe>>

\* the program is started again: TimeTracker.__init__.  An exception of
\* load_csv leaves __init__ and main: the process ends without a window.
Launch ==
  /\ pc \in {"closed", "crashed"}
  /\ handler' = "init"
  /\ UNCHANGED <<store, row, faults, probe>>
  /\ IF load_raises(file)
     THEN /\ pc' = "crashed"
          /\ outcome' = "LoadFailure"
          /\ Ended
     ELSE /\ pc' = "idle"
          /\ outcome' = "ok"
          /\ punches' = punches_after_populate_table(load_csv(<<>>, file),
                                                     start_date, end_date)
          /\ ncalls' = IF is_clocked_in(punches') THEN Broken ELSE 0
          /\ UNCHANGED inputs
          /\ Refresh(punches')

\* ------------------------------------------------------------- the view's slots
\* ui_timer.timeout -> _refresh_footer_only
ui_timer ==
  /\ pc = "idle"
  /\ handler' = "ui_timer"
  /\ outcome' = "ok"
  /\ UNCHANGED <<punches, store, pc, row, inputs, status_label, table, faults,
                 ncalls, probe>>
  /\ \E nf \in NowReads(punches) : RefreshFooter(punches, wage, nf)

\* start_date.dateChanged -> _refresh
start_date_changed ==
  /\ pc = "idle"
  /\ \E d \in Days \ {start_date} : start_date' = d
  /\ handler' = "start_date"
  /\ outcome' = "ok"
  /\ punches' = punches_after_populate_table(punches, start_date', end_date)
  /\ UNCHANGED <<store, pc, row, end_date, wage, faults, ncalls, probe>>
  /\ Refresh(punches')

\* end_date.dateChanged -> _refresh
end_date_changed ==
  /\ pc = "idle"
  /\ \E d \in Days \ {end_date} : end_date' = d
  /\ handler' = "end_date"
  /\ outcome' = "ok"
  /\ punches' = punches_after_populate_table(punches, start_date, end_date')
  /\ UNCHANGED <<store, pc, row, start_date, wage, faults, ncalls, probe>>
  /\ Refresh(punches')

\* rate_input.valueChanged -> _refresh_footer_only
rate_changed ==
  /\ pc = "idle"
  /\ \E w \in Wages \ {wage} : wage' = w
  /\ handler' = "rate_input"
  /\ outcome' = "ok"
  /\ UNCHANGED <<punches, store, pc, row, start_date, end_date, status_label,
                 table, faults, ncalls, probe>>
  /\ \E nf \in NowReads(punches) : RefreshFooter(punches, wage', nf)

\* ------------------------------------------------------------- specifications
\* the clock slots, save_csv step by step, failures, kills and restarts, and
\* the periodic footer refresh; the pickers stay at their defaults
Next ==
  \/ on_in
  \/ on_out
  \/ SaveOpen
  \/ SaveHeader
  \/ SaveRow
  \/ SaveReplace
  \/ SaveFail
  \/ closeEvent
  \/ Crash
  \/ Launch
  \/ ui_timer

Spec == Init /\ [][Next]_vars

\* ------------------------------------------------------------- claims (Spec)
LastOf(ps) == ps[Len(ps)]
OpenIdx(ps) == {i \in 1..Len(ps) : ps[i].out_time = None}

\* C1: starting from the empty list, after any clock in / clock out calls
\* (accepted or rejected) at most one punch has no out_time, and it is the last
C1_AtMostOneOpenAndLast ==
  /\ Cardinality(OpenIdx(punches)) <= 1
  /\ \A i \in OpenIdx(punches) : i = Len(punches)

\* a rejected clock in left a closed punch followed by the open one
C1_Witness ==
  /\ outcome = "AlreadyActive"
  /\ Len(punches) = 2
  /\ OpenIdx(punches) = {2}

\* C2: on_in while clocked in shows the AlreadyActive warning and changes
\* nothing: the list is the same, is_clocked_in stays true, save_csv is not
\* entered and both files are untouched
C2_ClockInWhileActiveNoMutation ==
  [][(on_in /\ is_clocked_in(punches)) =>
       /\ outcome' = "AlreadyActive"
       /\ punches' = punches
       /\ is_clocked_in(punches')
       /\ pc' = "idle"
       /\ file' = file
       /\ tmp' = tmp]_vars

C2_Witness ==
  /\ pc = "idle"
  /\ handler = "on_in"
  /\ outcome = "AlreadyActive"
  /\ is_clocked_in(punches)
  /\ file.exists

\* C3: on_out while not clocked in (empty list, or last punch closed) shows the
\* NotActive warning and changes nothing: the list is the same (a closed last
\* punch keeps its out_time), is_clocked_in stays false, save_csv is not
\* entered and both files are untouched
C3_ClockOutWhileIdleNoMutation ==
  [][(on_out /\ ~is_clocked_in(punches)) =>
       /\ outcome' = "NotActive"
       /\ punches' = punches
       /\ ~is_clocked_in(punches')
       /\ pc' = "idle"
       /\ file' = file
       /\ tmp' = tmp]_vars

C3_Witness ==
  /\ pc = "idle"
  /\ handler = "on_out"
  /\ outcome = "NotActive"
  /\ punches # <<>>
  /\ LastOf(punches).out_time # None
  /\ file.exists

\* C4: while the calls alternate on_in, on_out, on_in, ... from an idle start,
\* none is rejected and is_clocked_in after N calls is (N is odd); each on_in
\* appends exactly one open punch, each on_out closes the last punch and
\* leaves the length alone
C4_AlternatingCalls ==
  [][ncalls' # Broken =>
       /\ is_clocked_in(punches') = (ncalls' % 2 = 1)
       /\ (ncalls # Broken /\ ncalls' = ncalls + 1) =>
            /\ outcome' \notin {"AlreadyActive", "NotActive"}
            /\ IF ncalls' % 2 = 1
               THEN /\ Len(punches') = Len(punches) + 1
                    /\ SubSeq(punches', 1, Len(punches)) = punches
                    /\ LastOf(punches').out_time = None
               ELSE /\ Len(punches') = Len(punches)
                    /\ SubSeq(punches', 1, Len(punches) - 1)
                         = SubSeq(punches, 1, Len(punches) - 1)
                    /\ LastOf(punches').in_time = LastOf(punches).in_time
                    /\ LastOf(punches).out_time = None
                    /\ LastOf(punches').out_time # None]_vars

C4_Witness ==
  /\ pc = "idle"
  /\ ncalls = 2 * MaxPunches
  /\ ~is_clocked_in(punches)

\* C5: save_csv is atomic for the data file.  The data file changes only by
\* the final replace, and then to the complete serialization of the list; no
\* step of a save, no failure and no kill at any step leaves it partial.  So
\* what a restart loads is exactly the list the file was last written from
\* (as written, at second precision), or nothing when no save ever completed.
C5_SaveAtomic ==
  [][/\ file' # file =>
          /\ pc = "save_replace"
          /\ file' = Serialize(punches)
     /\ file'.exists => file'.header
     /\ (pc \in {"closed", "crashed"} /\ pc' = "idle") =>
          IF file.exists THEN Serialize(punches') = file
          ELSE punches' = <<>>]_vars

\* killed while the temporary file held only part of the rows being written
\* over an older, longer data file
C5_Witness ==
  /\ pc = "crashed"
  /\ file.exists
  /\ Len(file.rows) = 2
  /\ tmp.exists
  /\ tmp.header
  /\ Len(tmp.rows) = 1

\* the datetime t cut to its second
Second(t) == t \div TicksPerSecond

\* C6: the file a completed save_csv leaves loads back to a list of the same
\* length and order, each punch open iff it was open, with the same in_time
\* and out_time to the second
C6_RoundTrip ==
  [][SaveReplace =>
       LET loaded == load_csv(<<>>, file') IN
       /\ Len(loaded) = Len(punches)
       /\ \A i \in 1..Len(punches) :
            /\ Second(loaded[i].in_time) = Second(punches[i].in_time)
            /\ (loaded[i].out_time = None) = (punches[i].out_time = None)
            /\ punches[i].out_time # None =>
                 Second(loaded[i].out_time) = Second(punches[i].out_time)]_vars

\* a saved list of a closed and an open punch whose datetimes have a
\* sub-second part
C6_Witness ==
  /\ pc = "idle"
  /\ handler = "on_in"
  /\ outcome = "ok"
  /\ Len(punches) = 2
  /\ is_clocked_in(punches)
  /\ punches[1].in_time # punches[1].out_time
  /\ \A i \in 1..2 : punches[i].in_time % TicksPerSecond # 0
  /\ file = Serialize(punches)

\* C7: when on_in or on_out returns with its save done, the data file is the
\* serialization of the whole list, every punch included
C7_SavedWholeList ==
  /\ (pc = "idle" /\ handler \in {"on_in", "on_out"} /\ outcome = "ok") =>
       file = Serialize(punches)
  /\ (handler \in {"on_in", "on_out"} /\ outcome = "running") => pc \in SavePcs

\* on_out returned with its save done after an earlier failure or kill; the
\* file holds both punches
C7_Witness ==
  /\ pc = "idle"
  /\ handler = "on_out"
  /\ outcome = "ok"
  /\ faults > 0
  /\ Len(punches) = 2
  /\ Len(file.rows) = 2

\* C8: when the save_csv of on_in or on_out fails, the change made to the list
\* stays (the appended punch, or the out_time set on the last punch) and
\* is_clocked_in shows it; the slot ends with the failure, not with the
\* AlreadyActive / NotActive warning and not as if nothing happened
C8_SaveFailureKeepsMutation ==
  [][(SaveFail /\ handler \in {"on_in", "on_out"}) =>
       /\ outcome' = "PersistenceFailure"
       /\ pc' = "idle"
       /\ punches' = punches
       /\ punches' # <<>>
       /\ is_clocked_in(punches') = (handler = "on_in")
       /\ (LastOf(punches').out_time = None) = (handler = "on_in")]_vars

\* on_out's save failed: the last punch is closed in memory, open in the file
C8_Witness ==
  /\ pc = "idle"
  /\ handler = "on_out"
  /\ outcome = "PersistenceFailure"
  /\ LastOf(punches).out_time # None
  /\ file.exists
  /\ Len(file.rows) = Len(punches)
  /\ file.rows[Len(punches)].out_time = EmptyField

\* ------------------------------------------------------------- SpecRound
\* round_to_six_minutes on its own: any timedelta within MaxTdSeconds, negative
\* ones and ones with a sub-second part included
TdRange == (-(MaxTdSeconds * TicksPerSecond))..(MaxTdSeconds * TicksPerSecond)

InitRound ==
  /\ punches = <<>>
  /\ file = NoFile
  /\ tmp = NoFile
  /\ pc = "idle"
  /\ handler = "init"
  /\ outcome = "ok"
  /\ start_date = 0
  /\ end_date = 1
  /\ wage = 2000
  /\ status_label = FALSE
  /\ table = <<>>
  /\ total_label = 0
  /\ pay = 0
  /\ row = 0
  /\ faults = 0
  /\ ncalls = 0
  /\ td \in TdRange
  /\ rounded = None

\* the call round_to_six_minutes(td)
round_call ==
  /\ rounded = None
  /\ rounded' = round_to_six_minutes(td)
  /\ UNCHANGED <<punches, store, pc, handler, outcome, inputs, view, row, faults,
                 ncalls, td>>

NextRound == round_call

SpecRound == InitRound /\ [][NextRound]_vars

\* C9: round_to_six_minutes(d) is floor((max(0, seconds(d)) + 180) / 360) * 360
\* seconds for every d, seconds(d) the exact (fractional) seconds of d: a
\* non-negative multiple of 360 s; 0 s -> 0 s, 179 s -> 0 s, 180 s -> 360 s,
\* 181 s -> 360 s, 359 s -> 360 s
C9_RoundHalfUp ==
  rounded # None =>
    /\ rounded % TicksPerSecond = 0
    /\ total_seconds(rounded)
         = ((Max(0, td) + 180 * TicksPerSecond) \div (360 * TicksPerSecond)) * 360
    /\ total_seconds(rounded) >= 0
    /\ total_seconds(rounded) % 360 = 0
    /\ td = 0 => total_seconds(rounded) = 0
    /\ td = 179 * TicksPerSecond => total_seconds(rounded) = 0
    /\ td = 180 * TicksPerSecond => total_seconds(rounded) = 360
    /\ td = 181 * TicksPerSecond => total_seconds(rounded) = 360
    /\ td = 359 * TicksPerSecond => total_seconds(rounded) = 360

\* just under the tie by a sub-second part: rounds down
C9_Witness ==
  /\ td = 180 * TicksPerSecond - 1
  /\ rounded = 0

\* ------------------------------------------------------------- SpecView
\* the summary on its own: the widget starts on any punch list of at most
\* MaxViewPunches punches in which only the last may be open, and the pickers,
\* the wage box and the timer fire in any order

RECURSIVE ClosedLists(_)
ClosedLists(n) ==
  IF n = 0 THEN {<<>>}
  ELSE LET shorter == ClosedLists(n - 1) IN
       shorter \cup
         {Append(ps, Punch(tin, tout)) :
            ps \in {q \in shorter : Len(q) = n - 1},
            tin \in ViewInstants, tout \in ViewInstants}

ViewLists ==
  LET closed == ClosedLists(MaxViewPunches) IN
  closed \cup
    {Append(ps, Punch(tin, None)) :
       ps \in {q \in closed : Len(q) < MaxViewPunches}, tin \in ViewInstants}

InitView ==
  /\ punches \in ViewLists
  /\ file = Serialize(punches)
  /\ tmp = NoFile
  /\ pc = "idle"
  /\ handler = "init"
  /\ outcome = "ok"
  /\ start_date = 0
  /\ end_date = 1
  /\ wage = 2000
  /\ status_label = is_clocked_in(punches)
  /\ \E nt \in NowReads(punches) :
       table = populate_table(punches, start_date, end_date, nt)
  /\ \E nf \in NowReads(punches) :
       total_label = footer_total(punches, start_date, end_date, nf)
  /\ pay = footer_pay(total_label, wage)
  /\ row = 0
  /\ faults = 0
  /\ ncalls = IF is_clocked_in(punches) THEN Broken ELSE 0
  /\ td = 0
  /\ rounded = None

NextView ==
  \/ ui_timer
  \/ start_date_changed
  \/ end_date_changed
  \/ rate_changed

SpecView == InitView /\ [][NextView]_vars

\* the punches whose in_time's day lies in the range shown
InRange(ps) ==
  {i \in 1..Len(ps) :
     \E d \in Days :
       /\ d = date(ps[i].in_time)
       /\ (start_date <= d /\ d <= end_date) \/ (end_date <= d /\ d <= start_date)}

\* the sum over a set of punches of each punch's own rounded duration (seconds)
RECURSIVE SumOfRounded(_, _, _)
SumOfRounded(S, ps, nows) ==
  IF S = {} THEN 0
  ELSE LET i == CHOOSE x \in S : TRUE IN
       total_seconds(round_to_six_minutes(duration(ps[i], nows[i])))
         + SumOfRounded(S \ {i}, ps, nows)

TwoPunchesOf200s ==
  /\ Len(punches) = 2
  /\ InRange(punches) = {1, 2}
  /\ \A i \in 1..2 :
       /\ punches[i].out_time # None
       /\ punches[i].out_time - punches[i].in_time = 200 * TicksPerSecond

\* C10: the total shown is the sum over the punches in range of each punch's
\* own rounded duration, not the rounding of the summed durations: two closed
\* punches of 200 s each give 720 s (0.2 h), not the 360 s of one 400 s punch
C10_RoundedPerPunch ==
  /\ \E nows \in NowReads(punches) :
       total_label * 360 = SumOfRounded(InRange(punches), punches, nows)
  /\ TwoPunchesOf200s => total_label = 2

C10_Witness ==
  /\ TwoPunchesOf200s
  /\ handler = "ui_timer"
  /\ total_label * 360 = 720

\* ------------------------------------------------------------- claims (SpecView)
\* the table row k shows the punch p
Shows(k, p) ==
  /\ table[k].date = date(p.in_time)
  /\ table[k].tin = Second(p.in_time) % SecondsPerDay
  /\ table[k].tout = IF p.out_time = None THEN EmptyField
                     ELSE Second(p.out_time) % SecondsPerDay

\* the punches whose in_time's day d has min(start, end) <= d <= max(start, end)
Kept ==
  LET lo == IF start_date <= end_date THEN start_date ELSE end_date
      hi == IF start_date <= end_date THEN end_date ELSE start_date
  IN  {i \in 1..Len(punches) :
         lo <= date(punches[i].in_time) /\ date(punches[i].in_time) <= hi}

\* C11: the table shows a punch iff the day of its in_time lies between
\* min(start, end) and max(start, end), both days included, whatever its
\* out_time; a range given in reverse order shows the same punches
C11_RangeFilter ==
  /\ Len(table) = Cardinality(Kept)
  /\ \A i \in Kept : \E k \in 1..Len(table) : Shows(k, punches[i])
  /\ \A k \in 1..Len(table) : \E i \in Kept : Shows(k, punches[i])

\* a range given in reverse order; a punch on its first day that ends on the
\* next one and an open punch on its last day are both shown
C11_Witness ==
  /\ start_date = 1
  /\ end_date = 0
  /\ Len(punches) = 2
  /\ date(punches[1].in_time) = 0
  /\ punches[1].out_time # None
  /\ date(punches[1].out_time) = 1
  /\ date(punches[2].in_time) = 1
  /\ punches[2].out_time = None
  /\ Len(table) = 2

\* ------------------------------------------------------------- SpecPay
\* the widget started on the punch list ps, the pickers and the wage box at
\* their defaults
InitOn(ps) ==
  /\ punches = ps
  /\ file = Serialize(punches)
  /\ tmp = NoFile
  /\ pc = "idle"
  /\ handler = "init"
  /\ outcome = "ok"
  /\ start_date = 0
  /\ end_date = 1
  /\ wage = 2000
  /\ status_label = is_clocked_in(punches)
  /\ \E nt \in NowReads(punches) :
       table = populate_table(punches, start_date, end_date, nt)
  /\ \E nf \in NowReads(punches) :
       total_label = footer_total(punches, start_date, end_date, nf)
  /\ pay = footer_pay(total_label, wage)
  /\ row = 0
  /\ faults = 0
  /\ ncalls = IF is_clocked_in(punches) THEN Broken ELSE 0
  /\ td = 0
  /\ rounded = None

\* 09:00:00, 09:07:00 and 11:30:00 of day 0
PayInstants ==
  {32400 * TicksPerSecond, 32820 * TicksPerSecond, 41400 * TicksPerSecond}

\* the lists of at most n closed punches over the datetimes T
RECURSIVE ClosedListsOver(_, _)
ClosedListsOver(T, n) ==
  IF n = 0 THEN {<<>>}
  ELSE LET shorter == ClosedListsOver(T, n - 1) IN
       shorter \cup
         {Append(ps, Punch(tin, tout)) :
            ps \in {q \in shorter : Len(q) = n - 1}, tin \in T, tout \in T}

InitPay == \E ps \in ClosedListsOver(PayInstants, MaxViewPunches) : InitOn(ps)

SpecPay == InitPay /\ [][NextView]_vars

\* C12: the hours shown are the total rounded seconds / 3600 and the pay is
\* hours * wage, nothing rounded in between: 2.5 h at 20.00 give 50.00, and one
\* punch 09:00:00 - 09:07:00 (420 s) at 15.00 gives 0.1 h and 1.50
C12_PayIsHoursTimesWage ==
  /\ \E nows \in NowReads(punches) :
       LET secs == SumOfRounded(Kept, punches, nows) IN
       /\ total_label * 360 = secs
       /\ pay * 360 = secs * wage
  /\ (total_label = 25 /\ wage = 2000) => pay = 50000
  /\ (/\ punches = <<Punch(32400 * TicksPerSecond, 32820 * TicksPerSecond)>>
      /\ Kept = {1}
      /\ wage = 1500) => (total_label = 1 /\ pay = 1500)

\* the wage box set to 15.00 over the one punch of 420 s
C12_Witness ==
  /\ punches = <<Punch(32400 * TicksPerSecond, 32820 * TicksPerSecond)>>
  /\ handler = "rate_input"
  /\ wage = 1500
  /\ total_label = 1
  /\ pay = 1500

\* ------------------------------------------------------------- SpecLoad
\* the program started on a data file it did not write itself: any file of at
\* most MaxFileRows rows, with or without the header line, the rows well
\* formed or not; then the clock slots, their saves and restarts
LoadInFields == {0, 200, EmptyField, BadField, UndecodableField}
LoadOutFields == {200, EmptyField, BadField}
LoadRows == [in_time : LoadInFields, out_time : LoadOutFields]

RECURSIVE RowLists(_)
RowLists(n) ==
  IF n = 0 THEN {<<>>}
  ELSE LET shorter == RowLists(n - 1) IN
       shorter \cup {Append(rs, r) : rs \in {q \in shorter : Len(q) = n - 1},
                                     r \in LoadRows}

LoadFiles ==
  {NoFile} \cup
    {[exists |-> TRUE, header |-> h, rows |-> rs] :
       h \in BOOLEAN, rs \in RowLists(MaxFileRows)}

InitLoad ==
  /\ punches = <<>>
  /\ file \in LoadFiles
  /\ tmp = NoFile
  /\ pc = "closed"
  /\ handler = "closeEvent"
  /\ outcome = "ok"
  /\ start_date = 0
  /\ end_date = 1
  /\ wage = 2000
  /\ status_label = FALSE
  /\ table = <<>>
  /\ total_label = 0
  /\ pay = 0
  /\ row = 0
  /\ faults = 0
  /\ ncalls = 0
  /\ td = 0
  /\ rounded = None

NextLoad ==
  \/ Launch
  \/ on_in
  \/ on_out
  \/ SaveOpen
  \/ SaveHeader
  \/ SaveRow
  \/ SaveReplace
  \/ closeEvent

SpecLoad == InitLoad /\ [][NextLoad]_vars

\* a row that parses: a valid in_time, and an out_time that is empty or valid
Parses(r) == r.in_time >= 0 /\ (r.out_time = EmptyField \/ r.out_time >= 0)

\* the punches of the rows of f that parse, in the order of the file
ParsedOf(f) ==
  IF ~f.exists \/ ~f.header THEN <<>>
  ELSE LET good == SelectSeq(f.rows, Parses) IN
       [k \in 1..Len(good) |->
          Punch(good[k].in_time * TicksPerSecond,
                IF good[k].out_time = EmptyField THEN None
                ELSE good[k].out_time * TicksPerSecond)]

\* C13: loading never fails: with no file the list is empty, and for any
\* content of the file the list is exactly the rows that parse, in the order
\* of the file, the other rows dropped
C13_LoadNeverFails ==
  handler = "init" =>
    /\ outcome = "ok"
    /\ pc = "idle"
    /\ punches = ParsedOf(file)

\* the same for the files whose bytes all decode
C13_LoadOfDecodable ==
  (handler = "init" /\ ~load_raises(file)) =>
    /\ outcome = "ok"
    /\ pc = "idle"
    /\ punches = ParsedOf(file)

\* ------------------------------------------------------------- SpecSession
\* one run of the program from a first start: the clock slots and their
\* saves, with the pickers, the wage box and the timer firing in between
NextSession ==
  \/ on_in
  \/ on_out
  \/ SaveOpen
  \/ SaveHeader
  \/ SaveRow
  \/ SaveReplace
  \/ ui_timer
  \/ start_date_changed
  \/ end_date_changed
  \/ rate_changed

SpecSession == Init /\ [][NextSession]_vars

\* C14: computing the summary (a picker or the wage box changed, the timer
\* fired) in any state between clock in / clock out calls leaves the punch
\* list, is_clocked_in and both files as they are; the sort for the table does
\* not reorder the list, nor does the one of the _refresh that ends a clock slot
C14_SummaryReadOnly ==
  [][/\ (ui_timer \/ start_date_changed \/ end_date_changed \/ rate_changed) =>
          /\ punches' = punches
          /\ is_clocked_in(punches') = is_clocked_in(punches)
          /\ file' = file
          /\ tmp' = tmp
          /\ pc' = pc
     /\ (pc = "save_replace" /\ pc' = "idle") =>
          /\ punches' = punches
          /\ is_clocked_in(punches') = is_clocked_in(punches)]_vars

\* a picker changed while clocked in, the list not in the order of the table
C14_Witness ==
  /\ handler \in {"start_date", "end_date"}
  /\ Len(punches) = 2
  /\ is_clocked_in(punches)
  /\ punches[1].in_time > punches[2].in_time
  /\ Len(table) = 2
  /\ table[1].tin < table[2].tin
  /\ file.exists

\* ------------------------------------------------------------- claims (Spec)
\* C15: closing the window always attempts a save, whatever the state and
\* whether or not anything changed: the window closes only out of save_csv
\* called by closeEvent, and closeEvent can be taken whenever the program is
\* idle.  When that save succeeds the data file is the serialization of the
\* whole list in memory, so a change whose own save failed is in the file;
\* when it fails the window closes all the same.
C15_FinalSave ==
  [][/\ (pc = "idle" /\ handler' = "closeEvent") =>
          /\ pc' = "save_open"
          /\ punches' = punches
     /\ pc = "idle" => ENABLED closeEvent
     /\ (pc # "closed" /\ pc' = "closed") =>
          /\ handler = "closeEvent"
          /\ pc \in SavePcs
          /\ outcome' \in {"ok", "PersistenceFailure"}
          /\ (outcome' = "ok") = (pc = "save_replace" /\ ~SaveFail)
          /\ outcome' = "ok" => file' = Serialize(punches)
          /\ outcome' = "PersistenceFailure" => file' = file]_vars

\* the save of closeEvent is about to replace a data file that lacks a change
\* made in memory, the save of the slot that made it having failed
C15_Witness ==
  /\ pc = "save_replace"
  /\ handler = "closeEvent"
  /\ faults > 0
  /\ file.exists
  /\ file # Serialize(punches)
  /\ tmp = Serialize(punches)

\* where a running process can be
Running == SavePcs \cup {"idle"}

\* C16: while the program runs the list changes only by the two transitions.
\* An accepted on_in appends one open punch and touches nothing else; an
\* accepted on_out sets the out_time of the last punch, which had none, and
\* touches nothing else; no other step changes the list.  So no in_time ever
\* changes, no out_time changes once set, no punch is removed or moved.
C16_HistoryImmutable ==
  [][(pc \in Running /\ pc' \in Running) =>
       \/ punches' = punches
       \/ /\ pc = "idle"
          /\ handler' = "on_in"
          /\ Len(punches') = Len(punches) + 1
          /\ SubSeq(punches', 1, Len(punches)) = punches
          /\ LastOf(punches').out_time = None
       \/ /\ pc = "idle"
          /\ handler' = "on_out"
          /\ punches # <<>>
          /\ Len(punches') = Len(punches)
          /\ \A i \in 1..(Len(punches) - 1) : punches'[i] = punches[i]
          /\ LastOf(punches').in_time = LastOf(punches).in_time
          /\ LastOf(punches).out_time = None
          /\ LastOf(punches').out_time # None]_vars

\* on_out closed the second punch at another instant than the first, which
\* kept its out_time
C16_Witness ==
  /\ pc = "save_open"
  /\ handler = "on_out"
  /\ Len(punches) = 2
  /\ OpenIdx(punches) = {}
  /\ punches[1].out_time # punches[2].out_time

\* ------------------------------------------------------------- SpecDuration
\* Punch.duration on its own: of the last punch of any list of SpecView, the
\* clock read at any instant, and round_to_six_minutes of the result
InitDuration == \E ps \in ViewLists \ {<<>>} : InitOn(ps)

\* the call punches[-1].duration()
duration_call ==
  /\ handler = "init"
  /\ rounded = None
  /\ \E now \in Instants : td' = duration(LastOf(punches), now)
  /\ handler' = "duration"
  /\ UNCHANGED <<punches, store, pc, outcome, inputs, view, row, faults, ncalls,
                 rounded>>

NextDuration ==
  \/ duration_call
  \/ round_call

SpecDuration == InitDuration /\ [][NextDuration]_vars

\* C17: the duration of a closed punch is out_time - in_time, that of an open
\* punch is now - in_time, and either is 0 when negative: a closed punch whose
\* out_time is before its in_time, or an open punch whose in_time is after
\* now, has duration 0 and rounds to 0 hours
C17_DurationFloored ==
  handler = "duration" =>
    LET p == LastOf(punches) IN
    /\ \E now \in Instants :
         td = IF p.out_time # None
              THEN (IF p.out_time >= p.in_time THEN p.out_time - p.in_time ELSE 0)
              ELSE (IF now >= p.in_time THEN now - p.in_time ELSE 0)
    /\ td >= 0
    /\ (p.out_time # None /\ p.out_time < p.in_time) => td = 0
    /\ (p.out_time = None /\ \A now \in Instants : p.in_time > now) => td = 0
    /\ (td = 0 /\ rounded # None) => rounded = 0

\* a closed punch that ends a day before it starts
C17_Witness ==
  /\ handler = "duration"
  /\ LastOf(punches).out_time # None
  /\ date(LastOf(punches).out_time) < date(LastOf(punches).in_time)
  /\ td = 0
  /\ rounded = 0

\* ------------------------------------------------------------- claims (SpecLoad)
\* C18: whatever the data file holds, the list loaded from it has at most one
\* punch without out_time, and only as its last punch; so it has in every
\* state reached from there by clock in / clock out
C18_LoadedListWellFormed ==
  pc \in Running =>
    /\ Cardinality(OpenIdx(punches)) <= 1
    /\ \A i \in OpenIdx(punches) : i = Len(punches)

\* ------------------------------------------------------------- SpecMonotone
\* the datetime the clock slots stored last (0 for the empty list)
LastTime(ps) ==
  IF ps = <<>> THEN 0
  ELSE IF LastOf(ps).out_time # None THEN LastOf(ps).out_time
  ELSE LastOf(ps).in_time

\* the wall clock does not go backwards: the reading an accepted clock slot
\* stores is not before the one stored last
ClockMonotone ==
  (pc = "idle" /\ pc' = "save_open" /\ handler' \in {"on_in", "on_out"}) =>
    LastTime(punches') >= LastTime(punches)

\* Next with the clock of on_in and on_out held to ClockMonotone
NextMonotone ==
  \/ on_in /\ ClockMonotone
  \/ on_out /\ ClockMonotone
  \/ SaveOpen
  \/ SaveHeader
  \/ SaveRow
  \/ SaveReplace
  \/ SaveFail
  \/ closeEvent
  \/ Crash
  \/ Launch
  \/ ui_timer

SpecMonotone == Init /\ [][NextMonotone]_vars

\* C19: with a clock that never goes backwards, after any clock in / clock
\* out calls from the empty list the punches are in time order and do not
\* overlap: in_time <= out_time for every closed punch, and every punch but
\* the last is closed with out_time <= the in_time of the next
C19_Chronological ==
  /\ \A i \in 1..Len(punches) :
       punches[i].out_time # None => punches[i].in_time <= punches[i].out_time
  /\ \A i \in 1..(Len(punches) - 1) :
       /\ punches[i].out_time # None
       /\ punches[i].out_time <= punches[i + 1].in_time

\* two closed punches, the first of which took time
C19_Witness ==
  /\ pc = "idle"
  /\ handler = "on_out"
  /\ outcome = "ok"
  /\ Len(punches) = 2
  /\ OpenIdx(punches) = {}
  /\ punches[1].in_time < punches[1].out_time

\* ------------------------------------------------------------- SpecRestart
\* the summary over lists of closed punches stamped by the clock slots with a
\* sub-second part (the first instant) or without, each list already saved
RestartInstants == {1, 180 * TicksPerSecond, 360 * TicksPerSecond}

InitRestart ==
  \E ps \in ClosedListsOver(RestartInstants, MaxViewPunches) : InitOn(ps)

SpecRestart == InitRestart /\ [][NextView]_vars

\* one clock reading for each punch of a list of closed punches (none is used)
NoReads(ps) == [i \in 1..Len(ps) |-> 0]

\* C20: the payroll figures survive a restart.  For a saved list of closed
\* punches, each punch's rounded duration, the total hours and the pay computed
\* from the list in memory equal those computed from the list loaded back
\* from the file, for the same range and wage
C20_TotalsSurviveRestart ==
  (pc = "idle" /\ file = Serialize(punches)) =>
    LET loaded == load_csv(<<>>, file)
        total == footer_total(loaded, start_date, end_date, NoReads(loaded))
    IN  /\ Len(loaded) = Len(punches)
        /\ \A i \in 1..Len(punches) :
             round_to_six_minutes(duration(loaded[i], 0))
               = round_to_six_minutes(duration(punches[i], 0))
        /\ total_label = total
        /\ pay = footer_pay(total, wage)
====
